---- MODULE Spec2Model ----
(***************************************************************************)
(* IMDB movie review sentiment analyzer (src/main.py): a Streamlit script  *)
(* that is re-executed top to bottom on every widget interaction.          *)
(*                                                                         *)
(* A text is a sequence of one-character strings.  A score (a probability  *)
(* in [0, 1]) is an integer number of 1/Scale units, so that comparisons,  *)
(* differences, abs() and round(.., 4) are exact.                          *)
(***************************************************************************)
EXTENDS Integers, Sequences, FiniteSets, TLC

VARIABLES
    session_state,  \* st.session_state: a function whose domain is the set of keys that are set
    cached_model,   \* st.cache_resource entry of load_sentiment_model: None or Some(model)
    model_file,     \* the content of simple_rnn_imdb.h5 (the trained weights)
    user_input,     \* the value of the 'Movie Review' text area
    maxlen,         \* the value of the 'Max sequence length' slider
    threshold,      \* the value of the 'Decision threshold' slider
    default_text,   \* the value= the text area was last created with
    out,            \* what the last script run rendered and computed
    call            \* a direct call of one of the helper functions (SpecFn only)

vars == <<session_state, cached_model, model_file, user_input, maxlen,
          threshold, default_text, out, call>>

app_vars == <<session_state, cached_model, user_input, maxlen,
              threshold, default_text, out>>

None == << >>
Some(v) == <<v>>

\* a Python list built by a comprehension: the tuple of the values of the
\* function f on 1..Len(f), each computed once
list(f) == SubSeq(f, 1, Len(f))

(***************************************************************************)
(* Bounds of the exploration.                                              *)
(***************************************************************************)
\* longest text passed to a helper function (SpecFn)
MaxTextLen == 5
\* longest text typed into the text area (Spec)
MaxTyped == 2
\* largest maxlen / limit_words argument of a direct helper call (SpecFn)
MaxArg == 3
\* most words of a generated review (SpecClassify)
MaxWords == 62

(***************************************************************************)
(* Program constants.                                                      *)
(***************************************************************************)
MAXLEN_DEFAULT == 500
\* limit_words=60 as the Classify handler passes it
LIMIT_WORDS == 60
\* importances[:20]
TOP_N == 20
\* one unit of a score: 1e-5
Scale == 10 ^ 5

\* st.slider('Max sequence length', min_value=100, max_value=1000, value=500, step=50)
MaxlenSlider == [min_value |-> 100, max_value |-> 1000, value |-> MAXLEN_DEFAULT, step |-> 50]
\* st.slider('Decision threshold', 0.0, 1.0, 0.5, 0.01), in score units
ThresholdSlider == [min_value |-> 0, max_value |-> Scale, value |-> Scale \div 2, step |-> Scale \div 100]

SliderValues(s) ==
    {v \in s.min_value .. s.max_value : (v - s.min_value) % s.step = 0}

(***************************************************************************)
(* str methods.                                                            *)
(***************************************************************************)
Whitespace == {" "}

UpperToLower ==
    ("A" :> "a") @@ ("I" :> "i") @@ ("O" :> "o") @@ ("T" :> "t") @@ ("W" :> "w")

\* str.lower()
lower(text) ==
    list([i \in 1..Len(text) |->
        IF text[i] \in DOMAIN UpperToLower THEN UpperToLower[text[i]] ELSE text[i]])

NonSpace(text, i) == text[i] \notin Whitespace

\* the words of a range whose halves hold the words l and r: a word that runs
\* across the middle is the last word of l followed by the first word of r
SplitMerge(text, mid, l, r) ==
    IF NonSpace(text, mid) /\ NonSpace(text, mid + 1)
    THEN SubSeq(l, 1, Len(l) - 1) \o <<l[Len(l)] \o r[1]>> \o Tail(r)
    ELSE l \o r

\* the words of text[lo..hi]
RECURSIVE SplitRange(_, _, _)
SplitRange(text, lo, hi) ==
    IF lo > hi THEN << >>
    ELSE IF lo = hi THEN (IF NonSpace(text, lo) THEN << <<text[lo]>> >> ELSE << >>)
    ELSE SplitMerge(text, (lo + hi) \div 2,
                    SplitRange(text, lo, (lo + hi) \div 2),
                    SplitRange(text, (lo + hi) \div 2 + 1, hi))

\* str.split(): the maximal runs of non-whitespace characters, in order
split(text) == SplitRange(text, 1, Len(text))

RECURSIVE JoinRange(_, _, _, _)
JoinRange(sep, words, lo, hi) ==
    IF lo > hi THEN << >>
    ELSE IF lo = hi THEN words[lo]
    ELSE JoinRange(sep, words, lo, (lo + hi) \div 2) \o sep
         \o JoinRange(sep, words, (lo + hi) \div 2 + 1, hi)

\* sep.join(words)
join(sep, words) == JoinRange(sep, words, 1, Len(words))

abs(x) == IF x < 0 THEN -x ELSE x

(***************************************************************************)
(* The vocabulary: imdb.get_word_index() maps each word of the dataset to  *)
(* its frequency rank (1 = most frequent).  The model keeps the head of    *)
(* the real index; every other word is out of vocabulary.                  *)
(***************************************************************************)
imdb_get_word_index ==
    (<<"t","h","e">> :> 1) @@ (<<"a","n","d">> :> 2) @@ (<<"a">> :> 3) @@
    (<<"o","f">> :> 4) @@ (<<"t","o">> :> 5) @@ (<<"i","s">> :> 6) @@
    (<<"b","r">> :> 7) @@ (<<"i","n">> :> 8) @@ (<<"i","t">> :> 9) @@
    (<<"i">> :> 10) @@ (<<"t","h","i","s">> :> 11) @@ (<<"t","h","a","t">> :> 12) @@
    (<<"w","a","s">> :> 13) @@ (<<"a","s">> :> 14) @@ (<<"f","o","r">> :> 15) @@
    (<<"w","i","t","h">> :> 16) @@ (<<"m","o","v","i","e">> :> 17) @@
    (<<"b","u","t">> :> 18) @@ (<<"f","i","l","m">> :> 19)

\* load_word_index(limit): <<word_index, reverse_word_index>>
load_word_index(limit) ==
    LET all == imdb_get_word_index
        word_index ==
            IF limit # None /\ limit # Some(0)
            THEN [k \in {w \in DOMAIN all : all[w] <= limit[1]} |-> all[k]]
            ELSE all
        reverse_word_index ==
            [v \in {word_index[k] : k \in DOMAIN word_index} |->
                CHOOSE k \in DOMAIN word_index : word_index[k] = v]
    IN  <<word_index, reverse_word_index>>

\* word_index, reverse_word_index = load_word_index()
word_index == load_word_index(None)[1]
reverse_word_index == load_word_index(None)[2]

\* dict.get(key, default)
get(dict, key, default) == IF key \in DOMAIN dict THEN dict[key] ELSE default

(***************************************************************************)
(* Preprocess / Decode.                                                    *)
(***************************************************************************)
\* np.zeros((1, n), dtype=np.int32)
zeros(n) == << [j \in 1..n |-> 0] >>

\* a faulty variant of pad_pre: padding='post', the zeros after the codes
pad_post(trunc, n) ==
    << list([j \in 1..n |-> IF j <= Len(trunc) THEN trunc[j] ELSE 0]) >>

\* the row of n entries that ends with the sequence trunc (Len(trunc) <= n)
pad_pre(trunc, n) ==
    << list([j \in 1..n |-> IF j <= n - Len(trunc) THEN 0 ELSE trunc[j - (n - Len(trunc))]]) >>

\* sequence.pad_sequences([seq], maxlen=n) with the defaults padding='pre',
\* truncating='pre', value=0: one row of n entries (n >= 1)
pad_sequences(seq, n) ==
    pad_pre(IF Len(seq) > n THEN SubSeq(seq, Len(seq) - n + 1, Len(seq)) ELSE seq, n)

\* encoded_review = [word_index.get(word, 2) + 3 for word in words]
encode(words, wi) == list([i \in 1..Len(words) |-> get(wi, words[i], 2) + 3])

preprocess_text(text, wi, n) ==
    IF text = << >>
    THEN zeros(n)
    ELSE pad_sequences(encode(split(lower(text)), wi), n)

IsWordCode(i) == i > 3

\* [reverse_word_index.get(i - 3, '?') for i in kept]
decode_words(kept, rwi) == list([j \in 1..Len(kept) |-> get(rwi, kept[j] - 3, <<"?">>)])

decode_review(encoded_review, rwi) ==
    join(<<" ">>, decode_words(SelectSeq(encoded_review, IsWordCode), rwi))

(***************************************************************************)
(* The trained network.  model.predict is a deterministic function of the  *)
(* padded batch; which function depends on the weights in the model file.  *)
(* A model is [bias, w]: the score of a row is the bias plus the weight of *)
(* every token, scaled by the token's distance from the end of the row     *)
(* (the network is recurrent: order matters), clamped to [0, 1].           *)
(***************************************************************************)
ModelFiles ==
    { [bias |-> Scale \div 2,       w |-> <<-200, 3, 0, 150, -4>>],
      [bias |-> (2 * Scale) \div 5, w |-> <<625, -300, 25, 0, 10>>] }

IsToken(t) == t # 0

Clamp(x) == IF x < 0 THEN 0 ELSE IF x > Scale THEN Scale ELSE x

\* the sum over the tokens toks[lo..hi] of weight * distance factor
RECURSIVE Activation(_, _, _, _)
Activation(m, toks, lo, hi) ==
    IF lo > hi THEN 0
    ELSE IF lo = hi
    THEN m.w[(toks[lo] % Len(m.w)) + 1] * (((Len(toks) - lo) % 3) + 1)
    ELSE Activation(m, toks, lo, (lo + hi) \div 2)
         + Activation(m, toks, (lo + hi) \div 2 + 1, hi)

Score(m, toks) == Clamp(m.bias + Activation(m, toks, 1, Len(toks)))

\* model.predict(batch, verbose=0): one row of one score per input row
model_predict(m, batch) ==
    list([r \in 1..Len(batch) |-> << Score(m, SelectSeq(batch[r], IsToken)) >>])

(***************************************************************************)
(* Word importance (leave-one-out).                                        *)
(***************************************************************************)
\* a faulty variant of rank: the sort key is the delta, not its absolute value
rank_signed(pairs, i) ==
    Cardinality({j \in 1..Len(pairs) :
                    \/ pairs[j][2] > pairs[i][2]
                    \/ pairs[j][2] = pairs[i][2] /\ j < i})

\* the number of pairs that a stable sort by decreasing |delta| puts before
\* pairs[i]: those of larger |delta| and the earlier ones of equal |delta|
rank(pairs, i) ==
    Cardinality({j \in 1..Len(pairs) :
        \/ abs(pairs[j][2]) > abs(pairs[i][2])
        \/ abs(pairs[j][2]) = abs(pairs[i][2]) /\ j < i})

by_rank(pairs, rk) ==
    list([p \in 1..Len(pairs) |-> pairs[CHOOSE i \in 1..Len(pairs) : rk[i] = p - 1]])

\* sorted(importances, key=lambda x: abs(x[1]), reverse=True)
sorted_by_abs_desc(pairs) == by_rank(pairs, list([i \in 1..Len(pairs) |-> rank(pairs, i)]))

\* a faulty variant of first_words: words[:limit_words - 1]
first_words_short(words, limit_words) ==
    SubSeq(words, 1, IF Len(words) < limit_words - 1 THEN Len(words) ELSE limit_words - 1)

\* words[:limit_words]
first_words(words, limit_words) ==
    SubSeq(words, 1, IF Len(words) < limit_words THEN Len(words) ELSE limit_words)

\* a faulty variant of without: every occurrence of the ith word is removed
without_word(words, i) ==
    SelectSeq(words, LAMBDA w : w # words[i])

\* words[:i] + words[i+1:] for the 1-based position i
without(words, i) == SubSeq(words, 1, i - 1) \o SubSeq(words, i + 1, Len(words))

\* the batches passed to model.predict, in call order: base_input, then the
\* temp_input of every position
loo_inputs(words, wi, n) ==
    <<preprocess_text(join(<<" ">>, words), wi, n)>> \o
    list([i \in 1..Len(words) |-> preprocess_text(join(<<" ">>, without(words, i)), wi, n)])

\* float(model.predict(input, verbose=0)[0][0]) of every call
loo_preds(m, inputs) == list([c \in 1..Len(inputs) |-> model_predict(m, inputs[c])[1][1]])

\* (base_pred, importances_sorted), preds[1] being base_pred and preds[i + 1]
\* the temp_pred of position i
loo_result(words, preds) ==
    <<preds[1],
      sorted_by_abs_desc(list([i \in 1..Len(words) |-> <<words[i], preds[1] - preds[i + 1]>>]))>>

\* returns [] for a text without words, else (base_pred, importances_sorted)
word_importance_leave_one_out(text, wi, m, n, limit_words) ==
    IF Len(split(lower(text))) = 0 THEN << >>
    ELSE loo_result(first_words(split(lower(text)), limit_words),
                    loo_preds(m, loo_inputs(first_words(split(lower(text)), limit_words), wi, n)))

\* how many times a call of word_importance_leave_one_out runs model.predict
loo_predict_calls(text, wi, n, limit_words) ==
    IF Len(split(lower(text))) = 0 THEN 0
    ELSE Len(loo_inputs(first_words(split(lower(text)), limit_words), wi, n))

(***************************************************************************)
(* Texts a user can type: a word of the vocabulary ("a"), an upper-case    *)
(* letter that lower() maps to one ("I"), the separator, and through them  *)
(* words outside the vocabulary ("aa", "ia", ...).                         *)
(***************************************************************************)
TypeChars == {" ", "a", "I"}

Texts(n) == UNION {[1..k -> TypeChars] : k \in 0..n}

(***************************************************************************)
(* SpecFn: the helper functions called directly, on every text of at most  *)
(* MaxTextLen characters and every maxlen and limit_words up to MaxArg.    *)
(***************************************************************************)
NoOut ==
    [status |-> "none", exception |-> "none", errors |-> << >>, rendered |-> {},
     padded |-> None, pred |-> None, sentiment |-> None, decoded |-> None,
     info |-> FALSE, loo |-> None, rows |-> None, table |-> None,
     report |-> None]

InitFn ==
    /\ session_state = [k \in {} |-> << >>]
    /\ cached_model = None
    /\ model_file \in ModelFiles
    /\ user_input = << >>
    /\ maxlen = MaxlenSlider.value
    /\ threshold = ThresholdSlider.value
    /\ default_text = << >>
    /\ out = NoOut
    /\ \E t \in Texts(MaxTextLen), n \in 1..MaxArg, l \in 0..MaxArg :
          call = [fn |-> "none", text |-> t, maxlen |-> n, limit_words |-> l,
                  padded |-> None, ret |-> None, predict_calls |-> 0]

\* padded = preprocess_text(text, word_index, maxlen=maxlen)
CallPreprocess ==
    /\ call.fn = "none"
    /\ call' = [call EXCEPT !.fn = "preprocess_text",
                            !.padded = Some(preprocess_text(call.text, word_index, call.maxlen))]
    /\ UNCHANGED <<app_vars, model_file>>

\* decoded = decode_review(padded[0], reverse_word_index)
CallDecode ==
    /\ call.fn = "preprocess_text"
    /\ call' = [call EXCEPT !.fn = "decode_review",
                            !.ret = Some(decode_review(call.padded[1][1], reverse_word_index))]
    /\ UNCHANGED <<app_vars, model_file>>

\* word_importance_leave_one_out(text, word_index, model, maxlen, limit_words)
CallImportance ==
    /\ call.fn = "none"
    /\ call' = [call EXCEPT
                  !.fn = "word_importance_leave_one_out",
                  !.ret = Some(word_importance_leave_one_out(
                                call.text, word_index, model_file, call.maxlen, call.limit_words)),
                  !.predict_calls = loo_predict_calls(call.text, word_index, call.maxlen,
                                                      call.limit_words)]
    /\ UNCHANGED <<app_vars, model_file>>

NextFn == CallPreprocess \/ CallDecode \/ CallImportance

SpecFn == InitFn /\ [][NextFn]_vars

(***************************************************************************)
(* Small utilities.  The third review's dash is U+2014 in the source; it   *)
(* is a word of its own there and here.                                    *)
(***************************************************************************)
SAMPLE_REVIEWS ==
    << <<"W","h","a","t"," ","a"," ","f","a","n","t","a","s","t","i","c"," ","m","o","v",
       "i","e","!"," ","T","h","e"," ","s","t","o","r","y",","," ","a","c","t","i","n",
       "g"," ","a","n","d"," ","d","i","r","e","c","t","i","o","n"," ","w","e","r","e",
       " ","t","o","p"," ","n","o","t","c","h",".">>,

       <<"I"," ","w","a","s","t","e","d"," ","t","w","o"," ","h","o","u","r","s"," ","o",
       "f"," ","m","y"," ","l","i","f","e","."," ","T","h","e"," ","p","l","o","t"," ",
       "w","a","s"," ","w","e","a","k"," ","a","n","d"," ","t","h","e"," ","a","c","t",
       "i","n","g"," ","w","a","s"," ","t","e","r","r","i","b","l","e",".">>,

       <<"A"," ","p","l","e","a","s","a","n","t"," ","s","u","r","p","r","i","s","e"," ",
       "-"," ","h","a","d"," ","f","u","n"," ","t","h","e"," ","w","h","o","l","e"," ",
       "t","i","m","e",","," ","w","o","u","l","d"," ","w","a","t","c","h"," ","a","g",
       "a","i","n",".">>,

       <<"O","v","e","r","h","y","p","e","d","."," ","I","t"," ","h","a","d"," ","f","l",
       "a","s","h","e","s"," ","o","f"," ","g","o","o","d"," ","m","o","m","e","n","t",
       "s"," ","b","u","t"," ","m","o","s","t","l","y"," ","d","r","a","g","g","e","d",
       " ","o","n",".">> >>

\* key=f"ex_{i}" of the sidebar button of SAMPLE_REVIEWS[i]
example_key == <<"ex_0", "ex_1", "ex_2", "ex_3">>

(***************************************************************************)
(* One run of the script.                                                  *)
(***************************************************************************)
EmptyDict == [k \in {} |-> << >>]

\* st.session_state[key] = value
setitem(dict, key, value) ==
    [k \in DOMAIN dict \cup {key} |-> IF k = key THEN value ELSE dict[k]]

\* round(delta, 4): to the nearest multiple of 1e-4, a tie to the even one
round4(delta) ==
    LET q == delta \div 10
        r == delta % 10
    IN  10 * (IF r < 5 THEN q
              ELSE IF r > 5 THEN q + 1
              ELSE IF q % 2 = 0 THEN q ELSE q + 1)

\* top = importances[:20]
top_slice(importances) ==
    SubSeq(importances, 1, IF Len(importances) < TOP_N THEN Len(importances) ELSE TOP_N)

\* effect = '↑' if delta > 0 else '↓'
effect_of(delta) == IF delta > 0 THEN "up" ELSE "down"

\* rows of the token table
rows_of(top) ==
    list([i \in 1..Len(top) |->
        [word |-> top[i][1], delta |-> round4(top[i][2]), effect |-> effect_of(top[i][2])]])

table_rows(importances) == rows_of(top_slice(importances))

\* sentiment = 'Positive' if pred > threshold else 'Negative'
sentiment_of(pred, th) == IF pred > th THEN "Positive" ELSE "Negative"

\* what the script draws before the buttons of the main column
PageHead == {"style", "sidebar", "title", "text_area", "classify_button"}
\* what a Classify press draws before the token importances
ClassifyVisuals == {"metric", "progress", "bar_chart", "decoded"}
\* what the script draws after the Classify column
PageTail == {"clear_button", "help", "diagnostics", "footer"}

\* the importances, the table and the report
ClassifyReport(head, ui, n, th, loo, rows) ==
    [head EXCEPT
        !.status = "complete",
        !.loo = Some(loo), !.rows = Some(rows), !.table = Some(rows),
        !.report = Some([input |-> ui, prediction |-> head.pred[1],
                         sentiment |-> head.sentiment[1],
                         top_token_importances |-> rows,
                         maxlen_used |-> n, threshold |-> th]),
        !.rendered = @ \cup {"subheader", "table", "download_button"}]

ClassifyTable(head, ui, n, th, loo) ==
    ClassifyReport(head, ui, n, th, loo, table_rows(loo[2]))

\* from the token importances on, head being what the handler has drawn
ClassifyTokens(head, ui, m, n, th, loo_fails) ==
    IF Len(split(ui)) = 0
    THEN \* st.info(..); `rows` was never assigned: building the report raises
         [head EXCEPT !.status = "exception", !.exception = "NameError",
                      !.info = TRUE, !.rendered = @ \cup {"info"}]
    ELSE IF loo_fails
    THEN [head EXCEPT !.status = "exception", !.exception = "predict",
                      !.rendered = @ \cup {"subheader"}]
    ELSE ClassifyTable(head, ui, n, th,
                       word_importance_leave_one_out(ui, word_index, m, n, LIMIT_WORDS))

\* the metric, the probability visuals and the decoded tokens
ClassifyHead(padded, pred, th, pred_fails) ==
    [NoOut EXCEPT
        !.errors = IF pred_fails THEN <<"Prediction error">> ELSE << >>,
        !.rendered = PageHead \cup ClassifyVisuals,
        !.padded = Some(padded), !.pred = Some(pred),
        !.sentiment = Some(sentiment_of(pred, th)),
        !.decoded = Some(decode_review(padded[1], reverse_word_index))]

\* try: pred = float(model.predict(padded, verbose=0)[0][0]) except: pred = 0.0
ClassifyPadded(ui, m, n, th, pred_fails, loo_fails, padded) ==
    ClassifyTokens(
        ClassifyHead(padded, IF pred_fails THEN 0 ELSE model_predict(m, padded)[1][1],
                     th, pred_fails),
        ui, m, n, th, loo_fails)

\* if st.button('Classify'): the handler, on the text ui, with the model m;
\* pred_fails: the handler's own model.predict raises;
\* loo_fails: a model.predict inside word_importance_leave_one_out raises
ClassifyHandler(ui, m, n, th, pred_fails, loo_fails) ==
    ClassifyPadded(ui, m, n, th, pred_fails, loo_fails, preprocess_text(ui, word_index, n))

\* the main column from its buttons on: ss, ui and dt are the session state,
\* the text area's value and its value=, classified what a Classify press gives
ScriptButtons(pressed, m, ss, ui, dt, classified) ==
    IF pressed = "Classify" /\ classified.status = "exception"
    THEN [session_state |-> ss, cached_model |-> Some(m), user_input |-> ui,
          default_text |-> dt, out |-> classified]
    ELSE IF pressed = "Clear"
    THEN \* st.session_state['example_text'] = ''; st.rerun()
         [session_state |-> setitem(ss, "example_text", << >>),
          cached_model |-> Some(m), user_input |-> ui, default_text |-> dt,
          out |-> [NoOut EXCEPT !.status = "rerun",
                                !.rendered = PageHead \cup {"clear_button"}]]
    ELSE [session_state |-> ss, cached_model |-> Some(m), user_input |-> ui,
          default_text |-> dt,
          out |-> IF pressed = "Classify"
                  THEN [classified EXCEPT !.rendered = @ \cup PageTail]
                  ELSE [NoOut EXCEPT !.status = "complete",
                                     !.rendered = PageHead \cup PageTail]]

\* the text area: a text area created with another value= is another widget,
\* which holds that value; otherwise it holds the browser's text
ScriptTextArea(pressed, text, n, th, pred_fails, loo_fails, m, ss, dt) ==
    ScriptButtons(pressed, m, ss, IF dt # default_text THEN dt ELSE text, dt,
                  ClassifyHandler(IF dt # default_text THEN dt ELSE text,
                                  m, n, th, pred_fails, loo_fails))

\* default_text = st.session_state.get('example_text', '') if set, else ''
ScriptMain(pressed, text, n, th, pred_fails, loo_fails, m, ss) ==
    ScriptTextArea(pressed, text, n, th, pred_fails, loo_fails, m, ss,
                   IF "example_text" \in DOMAIN ss THEN ss["example_text"] ELSE << >>)

\* a faulty variant of Sidebar: the button of example i stores example i + 1
Sidebar_shifted(pressed) ==
    IF \E i \in DOMAIN SAMPLE_REVIEWS : example_key[i] = pressed
    THEN setitem(session_state, "example_text",
                 SAMPLE_REVIEWS[((CHOOSE i \in DOMAIN SAMPLE_REVIEWS : example_key[i] = pressed)
                                 % Len(SAMPLE_REVIEWS)) + 1])
    ELSE session_state

\* the sidebar: if st.button(f'Example {i+1}'): st.session_state['example_text'] = ex
Sidebar(pressed) ==
    IF \E i \in DOMAIN SAMPLE_REVIEWS : example_key[i] = pressed
    THEN setitem(session_state, "example_text",
                 SAMPLE_REVIEWS[CHOOSE i \in DOMAIN SAMPLE_REVIEWS : example_key[i] = pressed])
    ELSE session_state

\* a faulty variant of Script: load_sentiment_model shows the error and
\* returns without raising, and the script goes on to draw the page
Script_swallow(pressed, text, n, th, load_fails, pred_fails, loo_fails) ==
    IF cached_model = None /\ load_fails
    THEN [session_state |-> Sidebar(pressed), cached_model |-> None,
          user_input |-> text, default_text |-> default_text,
          out |-> [NoOut EXCEPT !.status = "complete",
                                !.errors = <<"Error loading model">>,
                                !.rendered = PageHead \cup PageTail]]
    ELSE ScriptMain(pressed, text, n, th, pred_fails, loo_fails,
                    IF cached_model # None THEN cached_model[1] ELSE model_file,
                    Sidebar(pressed))

\* The script from its first line to its last, or to the exception or the
\* st.rerun() that ends it.  pressed is the button whose press caused the
\* run ("none": no button), text, n and th the values of the text area and
\* the two sliders in the browser; load_fails: load_model raises.
Script(pressed, text, n, th, load_fails, pred_fails, loo_fails) ==
    IF cached_model = None /\ load_fails
    THEN \* st.error(..); raise
         [session_state |-> session_state, cached_model |-> None,
          user_input |-> text, default_text |-> default_text,
          out |-> [NoOut EXCEPT !.status = "exception", !.exception = "load_model",
                                !.errors = <<"Error loading model">>,
                                !.rendered = {"style"}]]
    ELSE ScriptMain(pressed, text, n, th, pred_fails, loo_fails,
                    IF cached_model # None THEN cached_model[1] ELSE model_file,
                    Sidebar(pressed))

Run(pressed, text, n, th, load_fails, pred_fails, loo_fails) ==
    \E r \in {Script(pressed, text, n, th, load_fails, pred_fails, loo_fails)} :
        /\ session_state' = r.session_state
        /\ cached_model' = r.cached_model
        /\ user_input' = r.user_input
        /\ default_text' = r.default_text
        /\ out' = r.out
        /\ maxlen' = n
        /\ threshold' = th
        /\ UNCHANGED <<model_file, call>>

(***************************************************************************)
(* Spec: a browser session.  Every interaction runs the script again.      *)
(***************************************************************************)
MaxlenChoices == {MaxlenSlider.min_value, MaxlenSlider.value}
ThresholdChoices == {ThresholdSlider.value, 80 * ThresholdSlider.step}

NoCall ==
    [fn |-> "idle", text |-> << >>, maxlen |-> 0, limit_words |-> 0,
     padded |-> None, ret |-> None, predict_calls |-> 0]

Init ==
    /\ session_state = EmptyDict
    /\ cached_model = None
    /\ model_file \in ModelFiles
    /\ user_input = << >>
    /\ maxlen = MaxlenSlider.value
    /\ threshold = ThresholdSlider.value
    /\ default_text = << >>
    /\ out = NoOut
    /\ call = NoCall

\* the page is opened, or reloaded after the model failed to load
OpenPage ==
    /\ out.status = "none" \/ out.exception = "load_model"
    /\ \E load_fails \in BOOLEAN :
          Run("none", user_input, maxlen, threshold, load_fails, FALSE, FALSE)

\* the run st.rerun() asked for
Rerun ==
    /\ out.status = "rerun"
    /\ Run("none", user_input, maxlen, threshold, FALSE, FALSE, FALSE)

Interactive(widget) == out.status # "rerun" /\ widget \in out.rendered

PressExample(i) ==
    /\ Interactive("sidebar")
    /\ Run(example_key[i], user_input, maxlen, threshold, FALSE, FALSE, FALSE)

PressClassify ==
    /\ Interactive("classify_button")
    /\ \E pred_fails \in BOOLEAN, loo_fails \in BOOLEAN :
          Run("Classify", user_input, maxlen, threshold, FALSE, pred_fails, loo_fails)

PressClear ==
    /\ Interactive("clear_button")
    /\ Run("Clear", user_input, maxlen, threshold, FALSE, FALSE, FALSE)

\* the text area after one edit: a character typed at the end, or all deleted
Edits(ui) ==
    ({Append(ui, c) : c \in IF Len(ui) < MaxTyped THEN TypeChars ELSE {}}
        \cup {<< >>}) \ {ui}

EditText(t) ==
    /\ Interactive("text_area")
    /\ Run("none", t, maxlen, threshold, FALSE, FALSE, FALSE)

MoveMaxlen(v) ==
    /\ Interactive("sidebar")
    /\ v # maxlen
    /\ Run("none", user_input, v, threshold, FALSE, FALSE, FALSE)

MoveThreshold(v) ==
    /\ Interactive("sidebar")
    /\ v # threshold
    /\ Run("none", user_input, maxlen, v, FALSE, FALSE, FALSE)

Next ==
    \/ OpenPage
    \/ Rerun
    \/ \E i \in DOMAIN SAMPLE_REVIEWS : PressExample(i)
    \/ PressClassify
    \/ PressClear
    \/ \E t \in Edits(user_input) : EditText(t)
    \/ \E v \in MaxlenChoices : MoveMaxlen(v)
    \/ \E v \in ThresholdChoices : MoveThreshold(v)

Spec == Init /\ [][Next]_vars

(***************************************************************************)
(* SpecClassify: one press of Classify on a review of up to MaxWords       *)
(* words, the model being loaded.  The reviews have 0, 1 or 2 words, or    *)
(* about TOP_N words, or about LIMIT_WORDS words and more.                  *)
(***************************************************************************)
ReviewPatterns == { <<<<"a">>>>, << <<"T","h","e">>, <<"a">>, <<"f","i","l","m">>, <<"m","e","h">> >> }

ReviewLengths ==
    {k \in 0..MaxWords : k <= 2 \/ (TOP_N - 1 <= k /\ k <= TOP_N + 1) \/ k >= LIMIT_WORDS - 1}

\* the review of k words that repeats the words of pattern
Review(pattern, k) ==
    join(<<" ">>, list([i \in 1..k |-> pattern[((i - 1) % Len(pattern)) + 1]]))

InitClassify ==
    /\ session_state = EmptyDict
    /\ model_file \in ModelFiles
    /\ cached_model = Some(model_file)
    /\ \E pattern \in ReviewPatterns, k \in ReviewLengths : user_input = Review(pattern, k)
    /\ maxlen \in MaxlenChoices
    /\ threshold = ThresholdSlider.value
    /\ default_text = << >>
    /\ out = [NoOut EXCEPT !.status = "complete", !.rendered = PageHead \cup PageTail]
    /\ call = NoCall

FirstClassify == out.pred = None /\ PressClassify

SpecClassify == InitClassify /\ [][FirstClassify]_vars

(***************************************************************************)
(* Claims about the helper functions (SpecFn).                             *)
(***************************************************************************)
\* the code preprocess_text gives a lower-cased word
CodeOf(w) == IF w \in DOMAIN imdb_get_word_index THEN imdb_get_word_index[w] + 3 ELSE 5

\* C1: preprocess_text returns one row of exactly maxlen integers, for the
\* empty text, a whitespace-only text and texts of fewer, exactly and more
\* than maxlen words; with fewer than maxlen words the row is that many
\* zeros at the front followed by the codes of the words, and with more than
\* maxlen words it holds maxlen tokens and no padding.
C1_FixedLengthRow ==
    call.fn = "preprocess_text" =>
        LET ret   == call.padded[1]
            words == split(lower(call.text))
            n     == call.maxlen
        IN  /\ Len(ret) = 1
            /\ Len(ret[1]) = n
            /\ \A j \in 1..n : ret[1][j] \in Int
            /\ Len(words) < n =>
                  /\ \A j \in 1..(n - Len(words)) : ret[1][j] = 0
                  /\ \A i \in 1..Len(words) : ret[1][n - Len(words) + i] = CodeOf(words[i])
            /\ Len(words) >= n => \A j \in 1..n : ret[1][j] > 3

\* a text of more than maxlen words has been preprocessed
C1_Witness ==
    /\ call.fn = "preprocess_text"
    /\ Len(split(lower(call.text))) > call.maxlen
    /\ Len(call.padded[1][1]) = call.maxlen

\* the (word, delta) pair the claim describes for position i of the words ws
ExpectedPair(ws, i) ==
    LET rest == [j \in 1..(Len(ws) - 1) |-> IF j < i THEN ws[j] ELSE ws[j + 1]]
        score(x) == model_predict(model_file,
                                  preprocess_text(join(<<" ">>, x), word_index, call.maxlen))[1][1]
    IN  <<ws[i], score(ws) - score(rest)>>

\* C5: for a text of n >= 1 words and k = min(n, limit_words), the function
\* runs inference 1 + k times and returns k (word, delta) pairs, as many of
\* each pair as there are positions i < k whose word and
\* score(first k words) - score(first k words without position i) it is.
C5_LeaveOneOut ==
    (call.fn = "word_importance_leave_one_out" /\ Len(split(lower(call.text))) >= 1) =>
        LET all  == split(lower(call.text))
            k    == IF Len(all) < call.limit_words THEN Len(all) ELSE call.limit_words
            ws   == [i \in 1..k |-> all[i]]
            ret  == call.ret[1]
            imps == ret[2]
        IN  /\ Len(ret) = 2
            /\ call.predict_calls = 1 + k
            /\ Len(imps) = k
            /\ \A i \in 1..k :
                  Cardinality({j \in 1..k : imps[j] = ExpectedPair(ws, i)})
                  = Cardinality({j \in 1..k : ExpectedPair(ws, j) = ExpectedPair(ws, i)})

\* a text with a repeated word, cut to limit_words, has been analysed
C5_Witness ==
    /\ call.fn = "word_importance_leave_one_out"
    /\ Len(split(lower(call.text))) > call.limit_words
    /\ call.limit_words >= 2
    /\ Len(call.ret[1][2]) = call.limit_words
    /\ call.ret[1][2][1][1] = call.ret[1][2][2][1]

\* C9 as claimed: decode_review(preprocess_text(text)[0]) is the last maxlen
\* lower-cased words of the text joined by single spaces, a word of the
\* vocabulary as itself and any other word as '?'.
C9_DecodeRoundTrip ==
    call.fn = "decode_review" =>
        LET all  == split(lower(call.text))
            from == IF Len(all) > call.maxlen THEN Len(all) - call.maxlen ELSE 0
            last == [i \in 1..(Len(all) - from) |-> all[from + i]]
        IN  call.ret[1] =
                join(<<" ">>, [i \in 1..Len(last) |->
                                  IF last[i] \in DOMAIN imdb_get_word_index
                                  THEN last[i] ELSE <<"?">>])

(***************************************************************************)
(* Claims about a browser session (Spec).                                  *)
(***************************************************************************)
\* the run that gave out was a press of Classify
ClassifyRun == out.pred # None

\* a model.predict raised in the run that gave out
InferenceFailed == out.errors = <<"Prediction error">> \/ out.exception = "predict"

\* C2 as claimed: a Classify run in which an inference fails shows the
\* failure as a message and goes on to its end, with the sentiment, the
\* token table and the report; no exception leaves the handler.  The runs on
\* a text without words, which end in the NameError of C4, are left aside.
C2_InferenceFailureCaught ==
    (ClassifyRun /\ InferenceFailed /\ out.exception # "NameError") =>
        /\ out.exception = "none"
        /\ out.status = "complete"
        /\ out.errors # << >>
        /\ out.sentiment # None
        /\ out.table # None
        /\ out.report # None

\* the parts of the page the script draws after the resources are loaded
PageWidgets == {"sidebar", "text_area", "classify_button", "clear_button"}

\* C3 as claimed: when loading the model fails the error is shown, nothing
\* is propagated and the sidebar, the text area and the buttons are drawn.
C3_LoadFailureContinues ==
    out.errors = <<"Error loading model">> =>
        /\ out.exception = "none"
        /\ PageWidgets \subseteq out.rendered

\* C3 as amended: when loading the model fails the error is shown and the
\* exception is raised again: it leaves load_sentiment_model, the script
\* ends there, none of the sidebar, the text area and the buttons is drawn,
\* and no model is cached.
C3_LoadFailurePropagates ==
    out.errors = <<"Error loading model">> =>
        /\ out.status = "exception"
        /\ out.exception = "load_model"
        /\ out.rendered \cap PageWidgets = {}
        /\ cached_model = None

\* the model failed to load on a page reloaded after an earlier failure
C3_Witness ==
    /\ out.exception = "load_model"
    /\ out.errors = <<"Error loading model">>
    /\ cached_model = None

\* C4 as claimed: every Classify run, whatever the text, reaches the
\* download button with a report that holds the text, the prediction and the
\* token deltas of that run, the list of deltas being empty for a text
\* without words.  The runs in which an inference raises inside
\* word_importance_leave_one_out (C2) are left aside.
C4_ReportAlwaysProduced ==
    (ClassifyRun /\ out.exception # "predict") =>
        /\ "download_button" \in out.rendered
        /\ out.report # None
        /\ out.report[1].input = user_input
        /\ out.report[1].prediction = out.pred[1]
        /\ Len(split(user_input)) = 0 => out.report[1].top_token_importances = << >>
        /\ Len(split(user_input)) > 0 => out.report[1].top_token_importances = out.rows[1]

\* st.session_state.get('example_text', '')
example_text_of(ss) == IF "example_text" \in DOMAIN ss THEN ss["example_text"] ELSE << >>

\* example_text is the only session key, and after a whole run the text
\* area's value= is its value
C6_OnlyKey ==
    /\ DOMAIN session_state \subseteq {"example_text"}
    /\ ("text_area" \in out.rendered /\ out.status # "rerun") =>
          default_text = example_text_of(session_state)

\* what one run does to example_text and to the text area's value=: the
\* presses of Example and Clear set it, no other run changes it (a Classify
\* run is one that leaves a prediction)
C6_Step ==
    /\ \A i \in DOMAIN SAMPLE_REVIEWS :
          PressExample(i) => session_state' = [example_text |-> SAMPLE_REVIEWS[i]]
    /\ PressClear => session_state' = [example_text |-> << >>]
    /\ session_state' # session_state =>
          \/ \E i \in DOMAIN SAMPLE_REVIEWS : PressExample(i)
          \/ PressClear
    /\ out'.pred # None => session_state' = session_state
    /\ "text_area" \in out'.rendered =>
          default_text' = example_text_of(IF out'.status = "rerun"
                                          THEN session_state ELSE session_state')

\* C6: example_text is the only key the script keeps in the session state;
\* it is unset until an Example or a Clear press, a press of Example i sets
\* it to SAMPLE_REVIEWS[i] and a press of Clear to '', a Classify press, a
\* text edit and a slider move leave it as it is, and in every run the text
\* area's default value is example_text as it is when the text area is
\* drawn, or '' when it is unset.
C6_SessionKey == [](C6_OnlyKey) /\ [][C6_Step]_vars

\* the fourth example was chosen, the text was then edited and classified
C6_Witness ==
    /\ "example_text" \in DOMAIN session_state
    /\ session_state["example_text"] = SAMPLE_REVIEWS[4]
    /\ default_text = SAMPLE_REVIEWS[4]
    /\ user_input # default_text
    /\ ClassifyRun

(***************************************************************************)
(* Claims about one Classify run (SpecClassify).                           *)
(***************************************************************************)
\* min(a, b)
Min(a, b) == IF a < b THEN a ELSE b

\* the words the token table is about: the first LIMIT_WORDS words
TableWords == first_words(split(lower(user_input)), LIMIT_WORDS)

\* score(ws) - score(ws without position p), for the loaded model
ExpectedDelta(ws, p) ==
    LET rest == [j \in 1..(Len(ws) - 1) |-> IF j < p THEN ws[j] ELSE ws[j + 1]]
        score(x) == model_predict(model_file,
                                  preprocess_text(join(<<" ">>, x), word_index, maxlen))[1][1]
    IN  score(ws) - score(rest)

\* the table is the first rows of the importances: the word, the delta
\* rounded to 4 decimals, and the arrow of the delta
RowsOfImportances(rows, imps) ==
    \A r \in 1..Len(rows) :
        /\ rows[r].word = imps[r][1]
        /\ rows[r].delta = round4(imps[r][2])
        /\ rows[r].effect = "up" <=> imps[r][2] > 0
        /\ rows[r].effect = "down" <=> imps[r][2] <= 0
        /\ rows[r].delta > 0 => rows[r].effect = "up"
        /\ rows[r].delta < 0 => rows[r].effect = "down"

\* C7: the token table of a Classify run on a text of n >= 1 words has
\* min(20, min(n, 60)) rows, in non-increasing order of |delta|; every row
\* is the word and the delta of a position among the first min(n, 60)
\* words, every position whose |delta| is larger than that of the last row
\* is in the table, and a row's effect is "up" exactly when the delta
\* computed for it is strictly positive ("down" when it is zero or negative).
C7_TokenTable ==
    out.rows # None =>
        LET n     == Len(split(user_input))
            rows  == out.rows[1]
            imps  == out.loo[1][2]
            ws    == TableWords
            d     == list([p \in 1..Len(ws) |-> ExpectedDelta(ws, p)])
            least == abs(imps[Len(rows)][2])
        IN  /\ n >= 1
            /\ Len(rows) = Min(TOP_N, Min(n, LIMIT_WORDS))
            /\ out.table = out.rows
            /\ RowsOfImportances(rows, imps)
            /\ \A r \in 1..(Len(rows) - 1) :
                  /\ abs(imps[r][2]) >= abs(imps[r + 1][2])
                  /\ abs(rows[r].delta) >= abs(rows[r + 1].delta)
            /\ \A r \in 1..Len(rows) : \E p \in 1..Len(ws) : imps[r] = <<ws[p], d[p]>>
            /\ Cardinality({p \in 1..Len(ws) : abs(d[p]) > least})
               = Cardinality({r \in 1..Len(rows) : abs(imps[r][2]) > least})

\* a text of more than TOP_N words was classified, and its table holds a
\* positive and a non-positive delta
C7_Witness ==
    /\ out.rows # None
    /\ Len(split(user_input)) > TOP_N
    /\ Len(out.rows[1]) = TOP_N
    /\ \E r \in 1..TOP_N : out.rows[1][r].effect = "up"
    /\ \E r \in 1..TOP_N : out.rows[1][r].effect = "down"

\* C8 as claimed: in a Classify run on a text of at least one word, the
\* model answering every inference, the base score of the token deltas is
\* the prediction shown and written to the report, whatever the number of
\* words.
C8_BaseEqualsPrediction ==
    (out.loo # None /\ out.errors = << >>) =>
        /\ out.report[1].prediction = out.pred[1]
        /\ out.loo[1][1] = out.pred[1]

\* C8 as amended: in a Classify run on a text of 1 to 60 words, the model
\* answering every inference, the base score of the token deltas is the
\* prediction shown and written to the report.
C8_BaseEqualsPredictionUpToLimit ==
    (out.loo # None /\ out.errors = << >> /\ Len(split(user_input)) <= LIMIT_WORDS) =>
        /\ out.report[1].prediction = out.pred[1]
        /\ out.loo[1][1] = out.pred[1]

\* a text of exactly LIMIT_WORDS words was classified without a failure
C8_Witness ==
    /\ out.loo # None
    /\ out.errors = << >>
    /\ Len(split(user_input)) = LIMIT_WORDS
    /\ out.loo[1][1] = out.pred[1]

====
